---- MODULE Spec2Model ----
(***************************************************************************)
(* A model of the RFC-2544 plugin's header engine, peer resolver and        *)
(* configuration validation:                                               *)
(*   - Properties (plugin/structure.py): register_peer, get_modifier_range *)
(*   - ValueRange, SegmentField, Segment (model/m_protocol_segment.py)     *)
(*   - PluginModel2544 (dataset.py) over PortConfiguration                 *)
(*     (model/m_port_config.py): the validators run at construction        *)
(* Every component has its own specification; Spec composes them.          *)
(***************************************************************************)
EXTENDS Integers, Sequences, FiniteSets, TLC

VARIABLES
    props,           \* the Properties instance of the port under study
    peerIndex,       \* peer PortStruct -> its properties.test_port_index
    calls,           \* the peers passed to register_peer so far, in call order
    modifier_range,  \* what the last get_modifier_range call returned
    vr,              \* a ValueRange instance
    get_ret,         \* what the last get_current_value call returned
    pulls,           \* get_current_value calls since construction or reset()
    field,           \* a SegmentField instance
    field_ret,       \* what the last call on the field returned or raised
    segment,         \* a Segment instance
    seg_ret,         \* what the last call on the segment returned or raised
    input_data,      \* the parsed input PluginModel2544(**input_data) is built from
    plugin_model     \* what PluginModel2544(**input_data) returned or raised

propsVars == <<props, peerIndex, calls, modifier_range>>

vrVars == <<vr, get_ret, pulls>>

fieldVars == <<field, field_ret>>

segVars == <<segment, seg_ret>>

modelVars == <<input_data, plugin_model>>

\* what the operations of one component leave alone
notPropsVars == <<vrVars, fieldVars, segVars, modelVars>>

notVrVars == <<propsVars, fieldVars, segVars, modelVars>>

notFieldVars == <<propsVars, vrVars, segVars, modelVars>>

notSegVars == <<propsVars, vrVars, fieldVars, modelVars>>

notModelVars == <<propsVars, vrVars, fieldVars, segVars>>

vars == <<props, peerIndex, calls, modifier_range, vr, get_ret, pulls,
          field, field_ret, segment, seg_ret, input_data,
          plugin_model>>

----------------------------------------------------------------------------
(* Bounds *)

\* number of distinct peer PortStruct objects
NumPeers == 3
\* number of register_peer calls explored
MaxCalls == 3
\* stream ids 0..MaxStreamId are passed to get_modifier_range
MaxStreamId == 1
\* start_value and stop_value of a ValueRange are drawn from 0..MaxValue
MaxValue == 10
\* step_value is drawn from 0..MaxStep
MaxStep == 3
\* get_current_value calls explored between two resets
MaxPulls == 5
\* a lone SegmentField has bit_length 1..MaxBits and strings of up to MaxBits characters
MaxBits == 2
\* bit_segment_position of a lone SegmentField is drawn from 0..MaxPosition
MaxPosition == 1
\* prepare() calls explored on one bound value range
MaxFieldPulls == 2
\* port configurations in ports_configuration
MaxPorts == 2

----------------------------------------------------------------------------
(* Generic helpers *)

Range(s) == {s[i] : i \in 1..Len(s)}

Min(a, b) == IF a < b THEN a ELSE b

Max(a, b) == IF a > b THEN a ELSE b

\* Optional[T]: None is the empty tuple, a present value x is <<x>>
None == <<>>

Some(x) == <<x>>

\* an operation that returned normally
NoError == "no error"

----------------------------------------------------------------------------
(* Properties: plugin/structure.py *)

PeerIds == 1..NumPeers

\* the values test_port_index takes (port indices are never negative)
IndexValues == {0, 1, 3, 5, 9}

StreamIds == 0..MaxStreamId

\* Peer objects are interchangeable labels: tables are listed up to renaming.
PeerTables == {t \in [PeerIds -> IndexValues] :
                 \A i, j \in PeerIds : i < j => t[i] <= t[j]}

\* Properties() with its dataclass defaults, for a port with the given index
Properties(index) ==
    [num_modifiersL2 |-> 1,
     dest_port_count |-> 0,
     test_port_index |-> index,
     high_dest_port_count |-> 0,
     low_dest_port_count |-> 0,
     lowest_dest_port_index |-> -1,
     highest_dest_port_index |-> -1,
     peers |-> <<>>]

\* mutant: the stream-0 range of a two-modifier port ends at the port itself
get_modifier_range_own_included(self, stream_id) ==
    IF stream_id = 0
    THEN IF self.num_modifiersL2 = 2
         THEN <<self.lowest_dest_port_index, self.test_port_index>>
         ELSE IF self.dest_port_count > 0
              THEN <<self.lowest_dest_port_index, self.highest_dest_port_index>>
              ELSE <<self.test_port_index, self.test_port_index>>
    ELSE <<self.test_port_index + 1, self.highest_dest_port_index>>

\* mutant: the range of the other streams starts at the port itself
get_modifier_range_from_own(self, stream_id) ==
    IF stream_id = 0
    THEN IF self.num_modifiersL2 = 2
         THEN <<self.lowest_dest_port_index, self.test_port_index - 1>>
         ELSE IF self.dest_port_count > 0
              THEN <<self.lowest_dest_port_index, self.highest_dest_port_index>>
              ELSE <<self.test_port_index, self.test_port_index>>
    ELSE <<self.test_port_index, self.highest_dest_port_index>>

get_modifier_range(self, stream_id) ==
    IF stream_id = 0
    THEN IF self.num_modifiersL2 = 2
         THEN <<self.lowest_dest_port_index, self.test_port_index - 1>>
         ELSE IF self.dest_port_count > 0
              THEN <<self.lowest_dest_port_index, self.highest_dest_port_index>>
              ELSE <<self.test_port_index, self.test_port_index>>
    ELSE <<self.test_port_index + 1, self.highest_dest_port_index>>

\* mutant: the lowest index is overwritten by the latest peer, min() forgotten
lowest_index_update_last_wins(lowest, peer_index) ==
    peer_index

\* lines 521-525: the first registration seeds, later ones take the minimum
lowest_index_update(lowest, peer_index) ==
    IF lowest = -1 THEN peer_index ELSE Min(lowest, peer_index)

\* mutant: the highest index keeps its seed, max() forgotten
highest_index_update_seed_kept(highest, peer_index) ==
    IF highest = -1 THEN peer_index ELSE highest

\* lines 526-530
highest_index_update(highest, peer_index) ==
    IF highest = -1 THEN peer_index ELSE Max(highest, peer_index)

\* mutant: the early return for a peer with the port's own index is missing
register_peer_counts_self(self, peer, peer_index) ==
    LET s1 == IF peer \notin Range(self.peers)
              THEN [self EXCEPT !.peers = Append(@, peer)]
              ELSE self
        low == IF peer_index < s1.test_port_index
               THEN s1.low_dest_port_count + 1
               ELSE s1.low_dest_port_count
        high == IF peer_index < s1.test_port_index
                THEN s1.high_dest_port_count
                ELSE IF peer_index > s1.test_port_index
                     THEN s1.high_dest_port_count + 1
                     ELSE s1.high_dest_port_count
    IN [s1 EXCEPT
          !.dest_port_count = @ + 1,
          !.low_dest_port_count = low,
          !.high_dest_port_count = high,
          !.num_modifiersL2 = IF low > 0 /\ high > 0 THEN 2 ELSE 1,
          !.lowest_dest_port_index = lowest_index_update(@, peer_index),
          !.highest_dest_port_index = highest_index_update(@, peer_index)]

\* register_peer as a function of the Properties record, the peer object and
\* the peer's properties.test_port_index
register_peer(self, peer, peer_index) ==
    LET s1 == IF peer \notin Range(self.peers)
              THEN [self EXCEPT !.peers = Append(@, peer)]
              ELSE self
    IN  IF peer_index = s1.test_port_index
        THEN s1
        ELSE LET low == IF peer_index < s1.test_port_index
                        THEN s1.low_dest_port_count + 1
                        ELSE s1.low_dest_port_count
                 high == IF peer_index < s1.test_port_index
                         THEN s1.high_dest_port_count
                         ELSE IF peer_index > s1.test_port_index
                              THEN s1.high_dest_port_count + 1
                              ELSE s1.high_dest_port_count
             IN [s1 EXCEPT
                   !.dest_port_count = @ + 1,
                   !.low_dest_port_count = low,
                   !.high_dest_port_count = high,
                   !.num_modifiersL2 = IF low > 0 /\ high > 0 THEN 2 ELSE 1,
                   !.lowest_dest_port_index = lowest_index_update(@, peer_index),
                   !.highest_dest_port_index = highest_index_update(@, peer_index)]

\* no get_modifier_range call has returned since the last register_peer
NoRange == [called |-> FALSE, stream_id |-> 0, range |-> <<0, 0>>]

PropertiesInit ==
    /\ \E index \in IndexValues : props = Properties(index)
    /\ peerIndex \in PeerTables
    /\ calls = <<>>
    /\ modifier_range = NoRange

\* port.properties.register_peer(peer)
RegisterPeer(peer) ==
    /\ Len(calls) < MaxCalls
    /\ props' = register_peer(props, peer, peerIndex[peer])
    /\ calls' = Append(calls, peer)
    /\ modifier_range' = NoRange
    /\ UNCHANGED <<peerIndex, notPropsVars>>

\* port.properties.get_modifier_range(stream_id); the return value is kept
GetModifierRange(stream_id) ==
    /\ modifier_range' = [called |-> TRUE, stream_id |-> stream_id,
                          range |-> get_modifier_range(props, stream_id)]
    /\ UNCHANGED <<props, peerIndex, calls, notPropsVars>>

PropertiesNext ==
    \/ \E peer \in PeerIds : RegisterPeer(peer)
    \/ \E stream_id \in StreamIds : GetModifierRange(stream_id)

----------------------------------------------------------------------------
(* ValueRange: model/m_protocol_segment.py *)

\* A member of a Python Enum is equal to itself only: members of two Enum
\* classes differ even when their values are the same string.
EnumActions_INCR == [enum |-> "EnumActions", value |-> "increment"]
EnumActions_DECR == [enum |-> "EnumActions", value |-> "decrement"]
EnumActions_RAND == [enum |-> "EnumActions", value |-> "random"]

\* the type of ValueRange.action; pydantic rejects anything else
EnumActions == {EnumActions_INCR, EnumActions_DECR, EnumActions_RAND}

ModifierActionOption_INC == [enum |-> "ModifierActionOption", value |-> "increment"]
ModifierActionOption_DEC == [enum |-> "ModifierActionOption", value |-> "decrement"]
ModifierActionOption_RANDOM == [enum |-> "ModifierActionOption", value |-> "random"]

\* ValueRange(start_value=..., ...): current_count defaults to 0
ValueRange(start, step, stop, action, restart) ==
    [start_value |-> start,
     step_value |-> step,
     stop_value |-> stop,
     action |-> action,
     restart_for_each_port |-> restart,
     current_count |-> 0]

\* ValueRange.reset
reset(self) ==
    [self EXCEPT !.current_count = 0]

\* randint(a, b): any integer of a..b
randint(a, b) == a..b

\* mutant: the counter is left as it is after the value is computed
count_after_call_same(count) ==
    count

\* line 196: self.current_count += 1
count_after_call(count) ==
    count + 1

\* ValueRange.get_current_value: the outcomes of one call, each the returned
\* value, the instance after the call and whether the call reset the counter
get_current_value(self) ==
    IF self.action = ModifierActionOption_INC
    THEN LET current_value == self.start_value + self.current_count * self.step_value
         IN IF current_value > self.stop_value
            THEN {[value |-> self.start_value,
                   self |-> [self EXCEPT !.current_count =
                                count_after_call(reset(self).current_count)],
                   wrapped |-> TRUE]}
            ELSE {[value |-> current_value,
                   self |-> [self EXCEPT !.current_count = count_after_call(@)],
                   wrapped |-> FALSE]}
    ELSE IF self.action = ModifierActionOption_DEC
    THEN LET current_value == self.start_value - self.current_count * self.step_value
         IN IF current_value < self.stop_value
            THEN {[value |-> self.start_value,
                   self |-> [self EXCEPT !.current_count =
                                count_after_call(reset(self).current_count)],
                   wrapped |-> TRUE]}
            ELSE {[value |-> current_value,
                   self |-> [self EXCEPT !.current_count = count_after_call(@)],
                   wrapped |-> FALSE]}
    ELSE {[value |-> current_value,
           self |-> [self EXCEPT !.current_count = count_after_call(@)],
           wrapped |-> FALSE] :
            current_value \in randint(Min(self.start_value, self.stop_value),
                                      Max(self.start_value, self.stop_value))}

\* no get_current_value call has returned since construction or reset()
NoValue == [called |-> FALSE, value |-> 0, wrapped |-> FALSE]

ValueRangeInit ==
    /\ \E start \in 0..MaxValue, step \in 0..MaxStep, stop \in 0..MaxValue,
          action \in EnumActions, restart \in BOOLEAN :
         vr = ValueRange(start, step, stop, action, restart)
    /\ get_ret = NoValue
    /\ pulls = 0

\* value_range.get_current_value()
GetCurrentValue ==
    /\ pulls < MaxPulls
    /\ \E out \in get_current_value(vr) :
         /\ vr' = out.self
         /\ get_ret' = [called |-> TRUE, value |-> out.value, wrapped |-> out.wrapped]
    /\ pulls' = pulls + 1
    /\ UNCHANGED notVrVars

\* value_range.reset()
Reset ==
    /\ vr' = reset(vr)
    /\ get_ret' = NoValue
    /\ pulls' = 0
    /\ UNCHANGED notVrVars

ValueRangeNext ==
    \/ GetCurrentValue
    \/ Reset

----------------------------------------------------------------------------
(* Strings and BinaryString: model/m_protocol_segment.py *)

\* A str is a tuple of characters; the characters the model draws from
NL == "\n"

Chars == {"0", "1", NL}

StringsUpTo(n) == UNION {[1..k -> Chars] : k \in 0..n}

\* re.search("^[" + symbols + "]+$", content): one or more of the symbols up
\* to the end of the string, where $ also matches before one final newline
MatchesOneOrMore(symbols, content) ==
    LET n == Len(content)
        body == IF n > 0 /\ content[n] = NL THEN SubSeq(content, 1, n - 1) ELSE content
    IN  /\ Len(body) >= 1
        /\ \A i \in 1..Len(body) : body[i] \in symbols

\* BinaryString(content) is constructed (TRUE) or raises ValueError (FALSE)
BinaryString(content) ==
    MatchesOneOrMore({"0", "1"}, content)

\* BinaryString.is_all_zero
is_all_zero(self) ==
    MatchesOneOrMore({"0"}, self)

\* bin(n)[2:] for n >= 0: the binary digits of n, most significant first
RECURSIVE bin(_)
bin(n) ==
    IF n < 2 THEN <<IF n = 1 THEN "1" ELSE "0">>
    ELSE Append(bin(n \div 2), IF n % 2 = 1 THEN "1" ELSE "0")

\* str.zfill(width): zeros on the left up to width, never a cut
RECURSIVE zfill(_, _)
zfill(str, width) ==
    IF Len(str) >= width THEN str ELSE zfill(<<"0">> \o str, width)

----------------------------------------------------------------------------
(* SegmentField: model/m_protocol_segment.py *)

\* the SegmentField pydantic builds from validated data
SegmentField(name, value, bit_length, bit_segment_position, value_range) ==
    [name |-> name,
     value |-> value,
     bit_length |-> bit_length,
     bit_segment_position |-> bit_segment_position,
     hw_modifier |-> None,
     value_range |-> value_range]

\* SegmentField.__init__ returns (TRUE) or raises ValueError (FALSE): only
\* BinaryString(self.value) is checked, the length is not compared with bit_length
SegmentField_init_ok(self) ==
    BinaryString(self.value)

\* mutant: the new value is stored whatever its length
set_field_value_unchecked(self, new_value) ==
    [err |-> NoError, self |-> [self EXCEPT !.value = new_value]]

\* SegmentField.set_field_value: the error raised and the field afterwards
set_field_value(self, new_value) ==
    IF Len(new_value) = self.bit_length
    THEN [err |-> NoError, self |-> [self EXCEPT !.value = new_value]]
    ELSE [err |-> "ValueError", self |-> self]

\* SegmentField.apply_value_range_if_exists: the outcomes of one call, each
\* the error raised, the str returned, the generator's value and the field
\* afterwards.  self.value[position + bit_length] is one character, read by
\* index: an index at or beyond the end raises IndexError.
apply_value_range_if_exists(self) ==
    IF self.value_range = None
    THEN {[err |-> NoError, result |-> self.value, generated |-> 0, self |-> self]}
    ELSE {LET value_range_str == zfill(bin(out.value), self.bit_length)
              index == self.bit_segment_position + self.bit_length
              after == [self EXCEPT !.value_range = Some(out.self)]
          IN  IF index >= Len(self.value)
              THEN [err |-> "IndexError", result |-> <<>>,
                    generated |-> out.value, self |-> after]
              ELSE [err |-> NoError,
                    result |-> SubSeq(self.value, 1, self.bit_segment_position)
                               \o value_range_str
                               \o <<self.value[index + 1]>>,
                    generated |-> out.value, self |-> after]
          : out \in get_current_value(self.value_range[1])}

\* SegmentField.prepare
SegmentField_prepare(self) ==
    apply_value_range_if_exists(self)

\* the value ranges bound to the fields of the model
FieldValueRanges ==
    {ValueRange(0, 1, 2, action, FALSE) : action \in EnumActions}

\* the strings a lone field is built from, and the BinaryStrings it is given
FieldValues == StringsUpTo(MaxBits)

FieldInputs == {s \in StringsUpTo(MaxBits) : BinaryString(s)}

NoFieldCall == [op |-> "none", err |-> NoError, result |-> <<>>, generated |-> 0]

\* the counter of a bound value range is still below the bound of the model
CanPull(self) ==
    IF self.value_range = None THEN TRUE
    ELSE self.value_range[1].current_count < MaxFieldPulls

FieldInit ==
    /\ \E value \in FieldValues, bit_length \in 1..MaxBits,
          position \in 0..MaxPosition,
          value_range \in {None} \cup {Some(r) : r \in FieldValueRanges} :
         /\ field = SegmentField("f", value, bit_length, position, value_range)
         /\ SegmentField_init_ok(field)
    /\ field_ret = NoFieldCall

\* field.set_field_value(new_value) with a BinaryString
SetFieldValue(new_value) ==
    /\ LET out == set_field_value(field, new_value)
       IN  /\ field' = out.self
           /\ field_ret' = [op |-> "set_field_value", err |-> out.err,
                            result |-> <<>>, generated |-> 0]
    /\ UNCHANGED notFieldVars

\* field.prepare()
FieldPrepare ==
    /\ CanPull(field)
    /\ \E out \in SegmentField_prepare(field) :
         /\ field' = out.self
         /\ field_ret' = [op |-> "prepare", err |-> out.err,
                          result |-> out.result, generated |-> out.generated]
    /\ UNCHANGED notFieldVars

FieldNext ==
    \/ \E new_value \in FieldInputs : SetFieldValue(new_value)
    \/ FieldPrepare

----------------------------------------------------------------------------
(* Segment: model/m_protocol_segment.py *)

SegmentType_ETHERNET == "ethernet"
SegmentType_IP == "ipv4"
SegmentType_IPV6 == "ipv6"
SegmentType_UDP == "udp"

\* the index of the first field with the name, 0 where __getitem__ raises KeyError
Segment_getitem(self, field_name) ==
    IF \E i \in 1..Len(self.fields) : self.fields[i].name = field_name
    THEN CHOOSE i \in 1..Len(self.fields) :
           /\ self.fields[i].name = field_name
           /\ \A j \in 1..(i - 1) : self.fields[j].name # field_name
    ELSE 0

\* SegmentField.is_value_all_zero of self[field_name]; FALSE stands in where
\* the lookup raises (Found tells)
Found(self, field_name) == Segment_getitem(self, field_name) # 0

is_value_all_zero(self, field_name) ==
    IF Found(self, field_name)
    THEN is_all_zero(self.fields[Segment_getitem(self, field_name)].value)
    ELSE FALSE

\* the names saving_is_original_value_zero looks up, src then dst
OriginalValueFields(segment_type) ==
    IF segment_type = SegmentType_ETHERNET THEN <<"Src MAC addr", "Dst MAC addr">>
    ELSE IF segment_type = SegmentType_IP THEN <<"Src IP Addr", "Dest IP Addr">>
    ELSE IF segment_type = SegmentType_IPV6 THEN <<"Src IPv6 Addr", "Dest IPv6 Addr">>
    ELSE <<>>

\* Segment.saving_is_original_value_zero: the error raised and the segment afterwards
saving_is_original_value_zero(self) ==
    LET names == OriginalValueFields(self.segment_type)
    IN  IF names = <<>> THEN [err |-> NoError, self |-> self]
        ELSE IF ~Found(self, names[1]) THEN [err |-> "KeyError", self |-> self]
        ELSE IF ~Found(self, names[2])
        THEN [err |-> "KeyError",
              self |-> [self EXCEPT !.is_field_src_value_all_zero =
                                       is_value_all_zero(self, names[1])]]
        ELSE [err |-> NoError,
              self |-> [self EXCEPT
                          !.is_field_src_value_all_zero = is_value_all_zero(self, names[1]),
                          !.is_field_dst_value_all_zero = is_value_all_zero(self, names[2])]]

\* Segment(segment_type=..., fields=..., checksum_offset=...): __init__ builds
\* the model, the two flags False, then records the original zero-ness
Segment(segment_type, fields, checksum_offset) ==
    saving_is_original_value_zero(
        [segment_type |-> segment_type,
         fields |-> fields,
         checksum_offset |-> checksum_offset,
         is_field_src_value_all_zero |-> FALSE,
         is_field_dst_value_all_zero |-> FALSE])

\* Segment.__setitem__
Segment_setitem(self, field_name, new_value) ==
    LET i == Segment_getitem(self, field_name)
    IN  IF i = 0 THEN [err |-> "KeyError", self |-> self]
        ELSE LET out == set_field_value(self.fields[i], new_value)
             IN  [err |-> out.err, self |-> [self EXCEPT !.fields[i] = out.self]]

\* segment[field_name].value = new_value: the attribute is assigned, pydantic
\* validates it as a str and no length is compared
assign_value(self, field_name, new_value) ==
    LET i == Segment_getitem(self, field_name)
    IN  IF i = 0 THEN [err |-> "KeyError", self |-> self]
        ELSE [err |-> NoError, self |-> [self EXCEPT !.fields[i].value = new_value]]

\* Segment.__len__
Segment_len(self) ==
    LET RECURSIVE Sum(_)
        Sum(i) == IF i = 0 THEN 0 ELSE Sum(i - 1) + self.fields[i].bit_length
    IN  Sum(Len(self.fields))

\* ''.join(f.prepare() for f in self.fields) from field i on: the outcomes,
\* each the error raised, the joined str and the fields afterwards
RECURSIVE join_prepare(_, _)
join_prepare(fields, i) ==
    IF i > Len(fields)
    THEN {[err |-> NoError, bits |-> <<>>, fields |-> fields]}
    ELSE UNION {
           LET after == [fields EXCEPT ![i] = out.self]
           IN  IF out.err # NoError
               THEN {[err |-> out.err, bits |-> <<>>, fields |-> after]}
               ELSE {[err |-> rest.err,
                      bits |-> IF rest.err = NoError THEN out.result \o rest.bits ELSE <<>>,
                      fields |-> rest.fields] : rest \in join_prepare(after, i + 1)}
           : out \in SegmentField_prepare(fields[i])}

\* s.strip() of a str of the model's characters
RECURSIVE strip(_)
strip(s) ==
    IF s = <<>> THEN s
    ELSE IF Head(s) = NL THEN strip(Tail(s))
    ELSE IF s[Len(s)] = NL THEN strip(SubSeq(s, 1, Len(s) - 1))
    ELSE s

\* the byte at index i (from 0) of the digits right-aligned in nbytes bytes
ByteOfDigits(digits, nbytes, i) ==
    LET bit(k) == \* bit k (from 0, most significant first) of the 8 * nbytes bits
            LET d == k - (8 * nbytes - Len(digits))
            IN  IF d >= 0 /\ digits[d + 1] = "1" THEN 1 ELSE 0
        RECURSIVE Value(_)
        Value(n) == IF n = 0 THEN 0 ELSE 2 * Value(n - 1) + bit(8 * i + n - 1)
    IN  Value(8)

\* bitstring_to_bytes: int(s, 2) raises ValueError unless the stripped str is
\* binary digits; to_bytes gives the digits right-aligned in (len(s) + 7) // 8
\* bytes, big-endian
bitstring_to_bytes(s) ==
    LET digits == strip(s)
        nbytes == (Len(s) + 7) \div 8
    IN  IF digits = <<>> \/ \E k \in 1..Len(digits) : digits[k] \notin {"0", "1"}
        THEN [err |-> "ValueError", bytes |-> <<>>]
        ELSE [err |-> NoError,
              bytes |-> [i \in 1..nbytes |-> ByteOfDigits(digits, nbytes, i - 1)]]

\* the running sum of wrap_add_16 over the 16-bit words from byte i (from 0) on
RECURSIVE checksum_from(_, _, _)
checksum_from(data, i, checksum) ==
    IF i >= Len(data) THEN checksum
    ELSE LET w == data[i + 1] * 256 + data[i + 2]
             sum == checksum + w
         IN  checksum_from(data, i + 2,
                           IF sum > 65535 THEN (1 + sum) % 65536 ELSE sum)

\* wrap_add_16: the error raised and the buffer afterwards
wrap_add_16(data, offset_num) ==
    IF offset_num + 1 >= Len(data) \/ Len(data) % 2 = 1
    THEN [err |-> "IndexError", bytes |-> <<>>]
    ELSE LET zeroed == [data EXCEPT ![offset_num + 1] = 0, ![offset_num + 2] = 0]
             checksum == checksum_from(zeroed, 0, 0)
         IN  [err |-> NoError,
              bytes |-> [zeroed EXCEPT
                           ![offset_num + 1] = 255 + 1 + (-(checksum \div 256) - 1),
                           ![offset_num + 2] = 255 + 1 + (-(checksum % 256) - 1)]]

\* Segment.prepare: the outcomes, each the error raised, the bytearray
\* returned and the segment afterwards.  `if self.checksum_offset:` is false
\* for None and for 0.
Segment_prepare(self) ==
    {LET after == [self EXCEPT !.fields = joined.fields]
         result == bitstring_to_bytes(joined.bits)
     IN  IF joined.err # NoError
         THEN [err |-> joined.err, result |-> <<>>, self |-> after]
         ELSE IF result.err # NoError
         THEN [err |-> result.err, result |-> <<>>, self |-> after]
         ELSE IF self.checksum_offset # None /\ self.checksum_offset # Some(0)
         THEN LET summed == wrap_add_16(result.bytes, self.checksum_offset[1])
              IN  [err |-> summed.err, result |-> summed.bytes, self |-> after]
         ELSE [err |-> NoError, result |-> result.bytes, self |-> after]
     : joined \in join_prepare(self.fields, 1)}

\* setup_segment_ethernet: the error raised and the segment afterwards
setup_segment_ethernet(segment_, src_mac, dst_mac_, arp_mac) ==
    LET dst_mac == IF arp_mac = None THEN dst_mac_
                   ELSE IF is_all_zero(arp_mac[1]) THEN dst_mac_ ELSE arp_mac[1]
        dst == IF ~is_all_zero(dst_mac) /\ segment_.is_field_dst_value_all_zero
               THEN assign_value(segment_, "Dst MAC addr", dst_mac)
               ELSE [err |-> NoError, self |-> segment_]
    IN  IF dst.err # NoError THEN dst
        ELSE IF ~is_all_zero(src_mac) /\ dst.self.is_field_src_value_all_zero
        THEN assign_value(dst.self, "Src MAC addr", src_mac)
        ELSE dst

\* the body shared by setup_segment_ipv4 and setup_segment_ipv6
setup_segment_ip(segment_, src_name, src, dst_name, dst) ==
    LET first == IF segment_.is_field_src_value_all_zero
                 THEN Segment_setitem(segment_, src_name, src)
                 ELSE [err |-> NoError, self |-> segment_]
    IN  IF first.err # NoError THEN first
        ELSE IF first.self.is_field_dst_value_all_zero
        THEN Segment_setitem(first.self, dst_name, dst)
        ELSE first

setup_segment_ipv4(segment_, src_ipv4, dst_ipv4) ==
    setup_segment_ip(segment_, "Src IP addr", src_ipv4, "Dst IP addr", dst_ipv4)

setup_segment_ipv6(segment_, src_ipv6, dst_ipv6) ==
    setup_segment_ip(segment_, "Src IPv6 addr", src_ipv6, "Dst IPv6 addr", dst_ipv6)

\* the str of n characters c
Repeat(c, n) == [i \in 1..n |-> c]

Zeros(n) == Repeat("0", n)

\* 1010...
Pattern(n) == [i \in 1..n |-> IF i % 2 = 1 THEN "1" ELSE "0"]

\* the bit lengths of the fields of the model's segments
SegBitLengths == {4, 8, 16}

\* the BinaryStrings passed to __setitem__
SegInputs == {Zeros(8), Pattern(8), Pattern(4), Pattern(16)}

\* the address BinaryStrings passed to the setup helpers
AddressInputs == {Zeros(8), Pattern(8), Pattern(4)}

\* the segment types of the model with the names of their two fields
SegLayouts ==
    {<<SegmentType_ETHERNET, <<"Dst MAC addr", "Src MAC addr">>>>,
     <<SegmentType_IP, <<"Src IP Addr", "Dest IP Addr">>>>,
     <<SegmentType_IPV6, <<"Src IPv6 Addr", "Dest IPv6 Addr">>>>,
     <<SegmentType_UDP, <<"Src Port", "Dest Port">>>>}

\* the names passed to __setitem__: those of the fields and one of no field
SegNames == UNION {Range(layout[2]) : layout \in SegLayouts} \cup {"no such field"}

SegChecksumOffsets == {None, Some(0), Some(1), Some(2)}

\* the segments built from well-formed field data: every value is as long as
\* its bit_length and bit_segment_position is the offset within the segment
SegTemplates ==
    {Segment(layout[1],
             <<SegmentField(layout[2][1], v1, Len(v1), 0, r1),
               SegmentField(layout[2][2], v2, Len(v2), Len(v1), None)>>,
             offset) :
       layout \in SegLayouts,
       v1 \in {Zeros(n) : n \in SegBitLengths} \cup {Pattern(n) : n \in SegBitLengths},
       v2 \in {Zeros(n) : n \in SegBitLengths} \cup {Pattern(n) : n \in SegBitLengths},
       r1 \in {None, Some(ValueRange(0, 1, 2, EnumActions_INCR, FALSE))},
       offset \in SegChecksumOffsets}

NoSegCall == [op |-> "none", err |-> NoError, result |-> <<>>]

SegmentInit ==
    /\ \E built \in SegTemplates :
         /\ built.err = NoError
         /\ \A i \in 1..Len(built.self.fields) : SegmentField_init_ok(built.self.fields[i])
         /\ segment = built.self
    /\ seg_ret = NoSegCall

\* segment[field_name] = new_value, with the name of one of the segment's
\* fields or of none
SetItem(field_name, new_value) ==
    /\ \/ field_name = "no such field"
       \/ Found(segment, field_name)
    /\ LET out == Segment_setitem(segment, field_name, new_value)
       IN  /\ segment' = out.self
           /\ seg_ret' = [op |-> "__setitem__", err |-> out.err, result |-> <<>>]
    /\ UNCHANGED notSegVars

\* setup_segment_ethernet(segment, src_mac, dst_mac, arp_mac) on an Ethernet segment
SetupSegmentEthernet(src_mac, dst_mac, arp_mac) ==
    /\ segment.segment_type = SegmentType_ETHERNET
    /\ LET out == setup_segment_ethernet(segment, src_mac, dst_mac, arp_mac)
       IN  /\ segment' = out.self
           /\ seg_ret' = [op |-> "setup_segment_ethernet", err |-> out.err, result |-> <<>>]
    /\ UNCHANGED notSegVars

\* setup_segment_ipv4(segment, src_ipv4, dst_ipv4) on an IPv4 segment
SetupSegmentIpv4(src_ipv4, dst_ipv4) ==
    /\ segment.segment_type = SegmentType_IP
    /\ LET out == setup_segment_ipv4(segment, src_ipv4, dst_ipv4)
       IN  /\ segment' = out.self
           /\ seg_ret' = [op |-> "setup_segment_ipv4", err |-> out.err, result |-> <<>>]
    /\ UNCHANGED notSegVars

\* setup_segment_ipv6(segment, src_ipv6, dst_ipv6) on an IPv6 segment
SetupSegmentIpv6(src_ipv6, dst_ipv6) ==
    /\ segment.segment_type = SegmentType_IPV6
    /\ LET out == setup_segment_ipv6(segment, src_ipv6, dst_ipv6)
       IN  /\ segment' = out.self
           /\ seg_ret' = [op |-> "setup_segment_ipv6", err |-> out.err, result |-> <<>>]
    /\ UNCHANGED notSegVars

\* segment.prepare()
SegmentPrepare ==
    /\ \A i \in 1..Len(segment.fields) : CanPull(segment.fields[i])
    /\ \E out \in Segment_prepare(segment) :
         /\ segment' = out.self
         /\ seg_ret' = [op |-> "prepare", err |-> out.err, result |-> out.result]
    /\ UNCHANGED notSegVars

SegmentNext ==
    \/ \E field_name \in SegNames, new_value \in SegInputs :
         SetItem(field_name, new_value)
    \/ \E src_mac \in AddressInputs, dst_mac \in AddressInputs,
          arp_mac \in {None, Some(Zeros(8)), Some(Pattern(8))} :
         SetupSegmentEthernet(src_mac, dst_mac, arp_mac)
    \/ \E src_ipv4 \in AddressInputs, dst_ipv4 \in AddressInputs :
         SetupSegmentIpv4(src_ipv4, dst_ipv4)
    \/ \E src_ipv6 \in AddressInputs, dst_ipv6 \in AddressInputs :
         SetupSegmentIpv6(src_ipv6, dst_ipv6)
    \/ SegmentPrepare

----------------------------------------------------------------------------
(* PluginModel2544: dataset.py, over PortConfiguration: model/m_port_config.py *)
(* The enumerations of utils/constants.py, the exceptions of                  *)
(* utils/exceptions.py and the addresses of utils/field.py are as the         *)
(* specification describes them.                                              *)

TestTopology_PAIRS == "pairs"
TestTopology_BLOCKS == "blocks"
TestTopology_MESH == "mesh"

TestTopology == {TestTopology_PAIRS, TestTopology_BLOCKS, TestTopology_MESH}

\* TestTopology.is_pair_topology: the topology uses explicit peer pairing
is_pair_topology(topology) == topology = TestTopology_PAIRS

\* TestTopology.is_mesh_topology
is_mesh_topology(topology) == topology = TestTopology_MESH

TrafficDirection_EAST_TO_WEST == "east_to_west"
TrafficDirection_WEST_TO_EAST == "west_to_east"
TrafficDirection_BIDIRECTION == "bidir"

TrafficDirection ==
    {TrafficDirection_EAST_TO_WEST, TrafficDirection_WEST_TO_EAST,
     TrafficDirection_BIDIRECTION}

PortGroup_EAST == "east"
PortGroup_WEST == "west"
PortGroup_UNDEFINED == "undefined"

PortGroup == {PortGroup_EAST, PortGroup_WEST, PortGroup_UNDEFINED}

\* PortGroup.is_east
is_east(port_group) == port_group = PortGroup_EAST

\* PortGroup.is_west
is_west(port_group) == port_group = PortGroup_WEST

FlowCreationType_STREAM == "stream_based"
FlowCreationType_MODIFIER == "modifier_based"

FlowCreationType == {FlowCreationType_STREAM, FlowCreationType_MODIFIER}

\* FlowCreationType.is_stream_based
is_stream_based(flow_creation_type) == flow_creation_type = FlowCreationType_STREAM

RateResultScopeType_COMMON == "common_result"
RateResultScopeType_PER_SOURCE_PORT == "per_source_port_result"

RateResultScopeType == {RateResultScopeType_COMMON, RateResultScopeType_PER_SOURCE_PORT}

\* the unset addresses, the defaults of the address properties
IPv4Address_unset == "0.0.0.0"
IPv6Address_unset == "::"

\* IPv4Address.is_empty, IPv6Address.is_empty: the unset, all-zero address
is_empty(address) == address \in {IPv4Address_unset, IPv6Address_unset}

\* address.network(routing_prefix): the network address with its prefix
network(address, routing_prefix) == <<address, routing_prefix>>

\* the exceptions of utils/exceptions.py; none is a ValueError, so each leaves
\* the validator and the constructor at once
IPAddressMissing == "IPAddressMissing"
PortConfigNotEnough(require_ports) ==
    IF require_ports = 1 THEN "PortConfigNotEnough(1)" ELSE "PortConfigNotEnough(2)"
PortGroupError(group) ==
    IF group = "East" THEN "PortGroupError(East)" ELSE "PortGroupError(West)"
PortGroupNeeded == "PortGroupNeeded"
PortPeerNeeded == "PortPeerNeeded"
PortPeerInconsistent == "PortPeerInconsistent"
ModifierBasedNotSupportL3 == "ModifierBasedNotSupportL3"
TestTypesError == "TestTypesError"
ModifierBasedNotSupportPerPortResult == "ModifierBasedNotSupportPerPortResult"

\* PortProtocolVersion
PortProtocolVersion_ETHERNET == 0
PortProtocolVersion_IPV4 == 4
PortProtocolVersion_IPV6 == 6

\* PortProtocolVersion.is_ipv4
is_ipv4(version) == version = PortProtocolVersion_IPV4

\* PortProtocolVersion.is_ipv6
is_ipv6(version) == version = PortProtocolVersion_IPV6

\* PortProtocolVersion.is_l3
is_l3(version) == version # PortProtocolVersion_ETHERNET

\* ProtocolSegmentProfileConfig(header_segments=...); of a segment the
\* validators read the segment_type only
ProtocolSegmentProfileConfig(header_segments) ==
    [header_segments |-> header_segments]

\* ProtocolSegmentProfileConfig.protocol_version: the version of the first
\* IPv6 or IPv4 segment in order, Ethernet without one
protocol_version(self) ==
    LET RECURSIVE From(_)
        From(i) ==
            IF i > Len(self.header_segments) THEN PortProtocolVersion_ETHERNET
            ELSE IF self.header_segments[i].segment_type = SegmentType_IPV6
            THEN PortProtocolVersion_IPV6
            ELSE IF self.header_segments[i].segment_type = SegmentType_IP
            THEN PortProtocolVersion_IPV4
            ELSE From(i + 1)
    IN  From(1)

\* IPV4AddressProperties(address=...), the other attributes at their defaults
IPV4AddressProperties(address) ==
    [address |-> address, routing_prefix |-> 24, gateway |-> IPv4Address_unset]

\* IPV6AddressProperties(address=...), the other attributes at their defaults
IPV6AddressProperties(address) ==
    [address |-> address, routing_prefix |-> 24, gateway |-> IPv6Address_unset]

\* the private attributes of PortConfiguration (underscore_attrs_are_private)
PortConfiguration_private == {"_profile", "_port_config_slot", "_is_tx", "_is_rx"}

\* PortConfiguration(...): the fields the validators read and the private
\* attributes at their defaults; the record holds the attributes an instance has
PortConfiguration(peer_config_slot, port_group, profile_id, ipv4_properties, ipv6_properties) ==
    [peer_config_slot |-> peer_config_slot,
     port_group |-> port_group,
     profile_id |-> profile_id,
     ipv4_properties |-> ipv4_properties,
     ipv6_properties |-> ipv6_properties,
     _profile |-> ProtocolSegmentProfileConfig(<<>>),
     _port_config_slot |-> "",
     _is_tx |-> TRUE,
     _is_rx |-> TRUE]

\* PortConfiguration.is_tx_port
is_tx_port(self) == self._is_tx

\* PortConfiguration.is_rx_port
is_rx_port(self) == self._is_rx

\* PortConfiguration.profile
profile(self) == self._profile

\* PortConfiguration.ip_properties
ip_properties(self) ==
    IF is_ipv6(protocol_version(self._profile))
    THEN self.ipv6_properties
    ELSE self.ipv4_properties

\* the properties of PortConfiguration the validators name; none has a setter
PortConfiguration_properties == {"is_tx_port", "is_rx_port", "profile", "ip_properties"}

\* port.<name> read: a property gives its value, an attribute of the instance
\* its value, and any other name raises AttributeError
getattr(self, name) ==
    IF name = "is_tx_port" THEN [err |-> NoError, value |-> is_tx_port(self)]
    ELSE IF name = "is_rx_port" THEN [err |-> NoError, value |-> is_rx_port(self)]
    ELSE IF name = "profile" THEN [err |-> NoError, value |-> profile(self)]
    ELSE IF name = "ip_properties" THEN [err |-> NoError, value |-> ip_properties(self)]
    ELSE IF name \in DOMAIN self THEN [err |-> NoError, value |-> self[name]]
    ELSE [err |-> "AttributeError", value |-> None]

\* port.<name> = value (BaseModel.__setattr__): a private attribute or a field
\* is assigned; any other name, that of a property included, raises ValueError
\* (object has no field)
setattr(self, name, value) ==
    IF name \in DOMAIN self /\ name \notin PortConfiguration_properties
    THEN [err |-> NoError, port |-> [self EXCEPT ![name] = value]]
    ELSE [err |-> "ValueError", port |-> self]

\* the keys of a dict, held as the sequence of its items in insertion order
Keys(items) == {items[i].key : i \in 1..Len(items)}

\* items[key] of a dict that has the key
Lookup(items, key) ==
    items[CHOOSE i \in 1..Len(items) : items[i].key = key].value

\* the body of the loop of set_ports_rx_tx_type for one port: the error
\* raised and the port afterwards
rx_tx_type(port, config_index, direction) ==
    LET slot == getattr(port, "port_config_slot")
    IN  IF slot.err # NoError THEN [err |-> slot.err, port |-> port]
        ELSE LET named == IF slot.value = ""
                          THEN setattr(port, "port_config_slot", config_index)
                          ELSE [err |-> NoError, port |-> port]
             IN  IF named.err # NoError THEN named
                 ELSE IF getattr(named.port, "port_config_slot").value
                           = named.port.peer_config_slot
                 THEN named
                 ELSE IF direction = TrafficDirection_EAST_TO_WEST
                 THEN IF is_east(named.port.port_group)
                      THEN setattr(named.port, "is_rx_port", FALSE)
                      ELSE IF is_west(named.port.port_group)
                      THEN setattr(named.port, "is_tx_port", FALSE)
                      ELSE named
                 ELSE IF direction = TrafficDirection_WEST_TO_EAST
                 THEN IF is_east(named.port.port_group)
                      THEN setattr(named.port, "is_tx_port", FALSE)
                      ELSE IF is_west(named.port.port_group)
                      THEN setattr(named.port, "is_rx_port", FALSE)
                      ELSE named
                 ELSE named

\* validator set_ports_rx_tx_type: the error raised and the ports afterwards
set_ports_rx_tx_type(port_configs, values) ==
    IF "test_configuration" \notin DOMAIN values
    THEN [err |-> NoError, v |-> port_configs]
    ELSE LET direction == values.test_configuration.direction
             RECURSIVE Loop(_, _)
             Loop(v, i) ==
                 IF i > Len(v) THEN [err |-> NoError, v |-> v]
                 ELSE LET out == rx_tx_type(v[i].value, v[i].key, direction)
                          after == [v EXCEPT ![i].value = out.port]
                      IN  IF out.err # NoError THEN [err |-> out.err, v |-> after]
                          ELSE Loop(after, i + 1)
         IN  Loop(port_configs, 1)

\* the body of the loop of set_ip_properties for one port
set_ip_properties_of(port_config, values) ==
    LET profile_id == port_config.profile_id
    IN  IF profile_id \notin DOMAIN values.protocol_segments
        THEN [err |-> "KeyError", port |-> port_config]
        ELSE LET resolved == setattr(port_config, "profile",
                                     values.protocol_segments[profile_id])
             IN  IF resolved.err # NoError THEN resolved
                 ELSE LET version == protocol_version(profile(resolved.port))
                          selected ==
                              IF is_ipv4(version)
                              THEN setattr(resolved.port, "ip_properties",
                                           resolved.port.ipv4_properties)
                              ELSE IF is_ipv6(version)
                              THEN setattr(resolved.port, "ip_properties",
                                           resolved.port.ipv6_properties)
                              ELSE resolved
                      IN  IF selected.err # NoError THEN selected
                          ELSE IF /\ is_l3(protocol_version(profile(selected.port)))
                                  /\ is_empty(ip_properties(selected.port).address)
                          THEN [err |-> IPAddressMissing, port |-> selected.port]
                          ELSE selected

\* validator set_ip_properties
set_ip_properties(ports, values) ==
    IF "protocol_segments" \notin DOMAIN values
    THEN [err |-> NoError, v |-> ports]
    ELSE LET RECURSIVE Loop(_, _)
             Loop(v, i) ==
                 IF i > Len(v) THEN [err |-> NoError, v |-> v]
                 ELSE LET out == set_ip_properties_of(v[i].value, values)
                          after == [v EXCEPT ![i].value = out.port]
                      IN  IF out.err # NoError THEN [err |-> out.err, v |-> after]
                          ELSE Loop(after, i + 1)
         IN  Loop(ports, 1)

\* validator check_port_count
check_port_count(v, values) ==
    IF "test_configuration" \notin DOMAIN values THEN [err |-> NoError, v |-> v]
    ELSE LET require_ports ==
                 IF is_pair_topology(values.test_configuration.topology) THEN 1 ELSE 2
         IN  IF Len(v) < require_ports
             THEN [err |-> PortConfigNotEnough(require_ports), v |-> v]
             ELSE [err |-> NoError, v |-> v]

\* count_port_group: the error raised and the two counts returned
count_port_group(port_config, uses_port_peer, ports_in_east, ports_in_west) ==
    LET slot == getattr(port_config, "port_config_slot")
        looped == IF uses_port_peer /\ slot.value = port_config.peer_config_slot
                  THEN 1 ELSE 0
    IN  IF slot.err # NoError
        THEN [err |-> slot.err, ports_in_east |-> ports_in_east,
              ports_in_west |-> ports_in_west]
        ELSE IF is_east(port_config.port_group)
        THEN [err |-> NoError, ports_in_east |-> ports_in_east + 1,
              ports_in_west |-> ports_in_west + looped]
        ELSE IF is_west(port_config.port_group)
        THEN [err |-> NoError, ports_in_east |-> ports_in_east + looped,
              ports_in_west |-> ports_in_west + 1]
        ELSE [err |-> NoError, ports_in_east |-> ports_in_east,
              ports_in_west |-> ports_in_west]

\* check_port_peer: the error raised
check_port_peer(port_config, ports_configuration) ==
    LET peer_config_slot == port_config.peer_config_slot
    IN  IF peer_config_slot = "" THEN PortPeerNeeded
        ELSE IF peer_config_slot \notin Keys(ports_configuration)
        THEN PortPeerInconsistent
        ELSE LET slot == getattr(port_config, "port_config_slot")
             IN  IF slot.err # NoError THEN slot.err
                 ELSE IF Lookup(ports_configuration, peer_config_slot).peer_config_slot
                           # slot.value
                 THEN PortPeerInconsistent
                 ELSE NoError

\* validator check_port_groups_and_peers
check_port_groups_and_peers(v, values) ==
    IF "test_configuration" \notin DOMAIN values THEN [err |-> NoError, v |-> v]
    ELSE LET topology == values.test_configuration.topology
             uses_port_peer == is_pair_topology(topology)
             RECURSIVE Loop(_, _, _)
             Loop(i, ports_in_east, ports_in_west) ==
                 IF i > Len(v)
                 THEN [err |-> NoError, ports_in_east |-> ports_in_east,
                       ports_in_west |-> ports_in_west]
                 ELSE LET counted ==
                              IF ~is_mesh_topology(topology)
                              THEN count_port_group(v[i].value, uses_port_peer,
                                                    ports_in_east, ports_in_west)
                              ELSE [err |-> NoError, ports_in_east |-> ports_in_east,
                                    ports_in_west |-> ports_in_west]
                          peer == IF uses_port_peer THEN check_port_peer(v[i].value, v)
                                  ELSE NoError
                      IN  IF counted.err # NoError THEN counted
                          ELSE IF peer # NoError THEN [counted EXCEPT !.err = peer]
                          ELSE Loop(i + 1, counted.ports_in_east, counted.ports_in_west)
             counts == Loop(1, 0, 0)
         IN  IF counts.err # NoError THEN [err |-> counts.err, v |-> v]
             ELSE IF is_mesh_topology(topology) THEN [err |-> NoError, v |-> v]
             ELSE IF counts.ports_in_east = 0 THEN [err |-> PortGroupError("East"), v |-> v]
             ELSE IF counts.ports_in_west = 0 THEN [err |-> PortGroupError("West"), v |-> v]
             ELSE [err |-> NoError, v |-> v]

\* validator check_modifier_mode_and_segments
check_modifier_mode_and_segments(v, values) ==
    IF "test_configuration" \notin DOMAIN values THEN [err |-> NoError, v |-> v]
    ELSE IF /\ ~is_stream_based(values.test_configuration.flow_creation_type)
            /\ \E i \in 1..Len(v) : is_l3(protocol_version(profile(v[i].value)))
    THEN [err |-> ModifierBasedNotSupportL3, v |-> v]
    ELSE [err |-> NoError, v |-> v]

\* validator check_port_group: values holds the fields validated before
\* ports_configuration, so it reads values["ports_configuration"] only where
\* that key is there
check_port_group(v, values) ==
    IF /\ "ports_configuration" \in DOMAIN values
       /\ "test_configuration" \in DOMAIN values
       /\ \E i \in 1..Len(values.ports_configuration) :
            /\ values.ports_configuration[i].value.port_group = PortGroup_UNDEFINED
            /\ ~is_mesh_topology(values.test_configuration.topology)
    THEN [err |-> PortGroupNeeded, v |-> v]
    ELSE [err |-> NoError, v |-> v]

\* validator check_test_type_enable
check_test_type_enable(v) ==
    IF ~(\/ v.throughput_test.enabled
         \/ v.latency_test.enabled
         \/ v.frame_loss_rate_test.enabled
         \/ v.back_to_back_test.enabled)
    THEN [err |-> TestTypesError, v |-> v]
    ELSE [err |-> NoError, v |-> v]

\* validator check_result_scope
check_result_scope(v, values) ==
    IF "test_configuration" \notin DOMAIN values THEN [err |-> NoError, v |-> v]
    ELSE IF /\ v.throughput_test.enabled
            /\ v.throughput_test.rate_iteration_options.result_scope
                 = RateResultScopeType_PER_SOURCE_PORT
            /\ ~is_stream_based(values.test_configuration.flow_creation_type)
    THEN [err |-> ModifierBasedNotSupportPerPortResult, v |-> v]
    ELSE [err |-> NoError, v |-> v]

\* validator set_in_same_ipnetwork
set_in_same_ipnetwork(v, values) ==
    IF "ports_configuration" \in DOMAIN values
    THEN LET conf == values.ports_configuration
             networks == {network(ip_properties(conf[i].value).address,
                                  ip_properties(conf[i].value).routing_prefix) :
                            i \in 1..Len(conf)}
         IN  Cardinality(networks) = 1
    ELSE v

\* validator set_with_same_gateway
set_with_same_gateway(v, values) ==
    IF "ports_configuration" \in DOMAIN values
    THEN LET confs == values.ports_configuration
             gateways == {ip_properties(confs[i].value).gateway : i \in 1..Len(confs)}
         IN  Cardinality(gateways) = 1
    ELSE v

\* validator set_has_l3
set_has_l3(v, values) ==
    IF "ports_configuration" \in DOMAIN values
    THEN LET confs == values.ports_configuration
         IN  \E i \in 1..Len(confs) : is_l3(protocol_version(profile(confs[i].value)))
    ELSE FALSE

\* the validators of the field ports_configuration, in the order the class
\* defines them, which is the order they run in
PortsConfigurationValidators ==
    <<"set_ports_rx_tx_type", "set_ip_properties", "check_port_count",
      "check_port_groups_and_peers", "check_modifier_mode_and_segments",
      "check_port_group">>

\* the validators of the field test_types_configuration, in that order
TestTypesConfigurationValidators == <<"check_test_type_enable", "check_result_scope">>

\* one validator applied to the value of its field
apply_validator(name, v, values) ==
    CASE name = "set_ports_rx_tx_type" -> set_ports_rx_tx_type(v, values)
      [] name = "set_ip_properties" -> set_ip_properties(v, values)
      [] name = "check_port_count" -> check_port_count(v, values)
      [] name = "check_port_groups_and_peers" -> check_port_groups_and_peers(v, values)
      [] name = "check_modifier_mode_and_segments" ->
             check_modifier_mode_and_segments(v, values)
      [] name = "check_port_group" -> check_port_group(v, values)
      [] name = "check_test_type_enable" -> check_test_type_enable(v)
      [] name = "check_result_scope" -> check_result_scope(v, values)

\* body(value), the value computed once
With(value, body(_)) == CHOOSE result \in {body(x) : x \in {value}} : TRUE

\* the validators of one field run in order on its value up to the first that
\* raises: the error, the value afterwards and the validators entered
validate_field(validators, value, values) ==
    LET RECURSIVE Run(_, _, _)
        Run(i, v, ran) ==
            IF i > Len(validators) THEN [err |-> NoError, v |-> v, ran |-> ran]
            ELSE LET entered == Append(ran, validators[i])
                     next(out) ==
                         IF out.err # NoError
                         THEN [err |-> out.err, v |-> out.v, ran |-> entered]
                         ELSE Run(i + 1, out.v, entered)
                 IN  With(apply_validator(validators[i], v, values), next)
    IN  Run(1, value, <<>>)

\* PluginModel2544(**data), the fields in declared order: a ValueError of a
\* validator is collected, keeps the field out of values and ends in a
\* ValidationError after the other fields; any other exception leaves the
\* constructor at once.  The outcome: the error raised, the validators entered,
\* the port configurations as the validators left them, the derived booleans.
PluginModel2544(kwargs) ==
    LET values == [test_configuration |-> kwargs.test_configuration,
                   protocol_segments |-> kwargs.protocol_segments]
        after_ports(ports) ==
            LET with_ports == IF ports.err = NoError
                              THEN values @@ ("ports_configuration" :> ports.v)
                              ELSE values
                raised(err, ran) ==
                    [err |-> err, ran |-> ran, ports_configuration |-> ports.v,
                     in_same_ipnetwork |-> FALSE, with_same_gateway |-> FALSE,
                     has_l3 |-> FALSE]
                after_types(types) ==
                    IF types.err \notin {NoError, "ValueError"}
                    THEN raised(types.err, ports.ran \o types.ran)
                    ELSE IF ports.err # NoError \/ types.err # NoError
                    THEN raised("ValidationError", ports.ran \o types.ran)
                    ELSE [err |-> NoError,
                          ran |-> ports.ran \o types.ran,
                          ports_configuration |-> ports.v,
                          in_same_ipnetwork |-> set_in_same_ipnetwork(FALSE, with_ports),
                          with_same_gateway |-> set_with_same_gateway(FALSE, with_ports),
                          has_l3 |-> set_has_l3(FALSE, with_ports)]
            IN  IF ports.err \notin {NoError, "ValueError"}
                THEN raised(ports.err, ports.ran)
                ELSE With(validate_field(TestTypesConfigurationValidators,
                                         kwargs.test_types_configuration, with_ports),
                          after_types)
    IN  With(validate_field(PortsConfigurationValidators,
                            kwargs.ports_configuration, values),
             after_ports)

\* the configured addresses of the model
IPv4Addresses == {IPv4Address_unset, "10.0.0.1"}
IPv6Addresses == {IPv6Address_unset, "fe80::1"}

\* the protocol profiles of the model by profile id
ProtocolSegments ==
    [eth |-> ProtocolSegmentProfileConfig(<<[segment_type |-> SegmentType_ETHERNET]>>),
     v4 |-> ProtocolSegmentProfileConfig(<<[segment_type |-> SegmentType_ETHERNET],
                                            [segment_type |-> SegmentType_IP],
                                            [segment_type |-> SegmentType_IPV6]>>),
     v6 |-> ProtocolSegmentProfileConfig(<<[segment_type |-> SegmentType_ETHERNET],
                                            [segment_type |-> SegmentType_IPV6],
                                            [segment_type |-> SegmentType_UDP]>>)]

\* the config indices of the ports, in dict order
ConfigSlots == <<"A", "B", "C">>

\* the peer slots a port names: none, a config index of the model
PeerSlots == {""} \cup Range(ConfigSlots)

\* the profile and the addresses of a port: the address of the profile's
\* family set or unset, the other family's unset or set
PortProfiles ==
    {<<"eth", IPv4Address_unset, IPv6Address_unset>>,
     <<"v4", "10.0.0.1", IPv6Address_unset>>,
     <<"v4", IPv4Address_unset, "fe80::1">>,
     <<"v6", IPv4Address_unset, "fe80::1">>,
     <<"v6", "10.0.0.1", IPv6Address_unset>>}

\* the ports: every peer slot and group with the Ethernet profile, and the
\* IP-layer profiles on the ports of a pair A <-> B with a defined group
PortConfigurations ==
    {PortConfiguration(peer, group, p[1], IPV4AddressProperties(p[2]), IPV6AddressProperties(p[3])) :
       peer \in PeerSlots, group \in PortGroup, p \in {q \in PortProfiles : q[1] = "eth"}}
    \cup
    {PortConfiguration(peer, group, p[1], IPV4AddressProperties(p[2]), IPV6AddressProperties(p[3])) :
       peer \in {"A", "B"}, group \in {PortGroup_EAST, PortGroup_WEST}, p \in PortProfiles}

\* the dicts ports_configuration of up to MaxPorts ports
PortsConfigurations ==
    UNION {{[i \in 1..n |-> [key |-> ConfigSlots[i], value |-> ports[i]]] :
              ports \in [1..n -> PortConfigurations]} : n \in 0..MaxPorts}

TestConfigurations ==
    [topology : TestTopology, direction : TrafficDirection,
     flow_creation_type : FlowCreationType]

\* the test types: none enabled, the throughput test or another test
TestTypesConfigurations ==
    {[throughput_test |-> [enabled |-> on = "throughput",
                           rate_iteration_options |-> [result_scope |-> scope]],
      latency_test |-> [enabled |-> on = "latency"],
      frame_loss_rate_test |-> [enabled |-> on = "frame_loss_rate"],
      back_to_back_test |-> [enabled |-> on = "back_to_back"]] :
       on \in {"none", "throughput", "latency"},
       scope \in RateResultScopeType}

NotBuilt ==
    [err |-> "not built", ran |-> <<>>, ports_configuration |-> <<>>,
     in_same_ipnetwork |-> FALSE, with_same_gateway |-> FALSE, has_l3 |-> FALSE]

ModelInit ==
    /\ input_data \in [test_configuration : TestConfigurations,
                 protocol_segments : {ProtocolSegments},
                 ports_configuration : PortsConfigurations,
                 test_types_configuration : TestTypesConfigurations]
    /\ plugin_model = NotBuilt

\* PluginModel2544(**input_data)
Validate ==
    /\ plugin_model = NotBuilt
    /\ plugin_model' = PluginModel2544(input_data)
    /\ UNCHANGED <<input_data, notModelVars>>

ModelNext == Validate

----------------------------------------------------------------------------
(* Specifications: one per component, the other components idle *)

PropertiesIdle ==
    /\ props = Properties(0)
    /\ peerIndex = [peer \in PeerIds |-> 0]
    /\ calls = <<>>
    /\ modifier_range = NoRange

ValueRangeIdle ==
    /\ vr = ValueRange(0, 0, 0, EnumActions_INCR, FALSE)
    /\ get_ret = NoValue
    /\ pulls = 0

FieldIdle ==
    /\ field = SegmentField("f", <<"0">>, 1, 0, None)
    /\ field_ret = NoFieldCall

SegmentIdle ==
    /\ segment = Segment(SegmentType_UDP, <<>>, None).self
    /\ seg_ret = NoSegCall

ModelIdle ==
    /\ input_data = [test_configuration |-> [topology |-> TestTopology_MESH,
                                       direction |-> TrafficDirection_BIDIRECTION,
                                       flow_creation_type |-> FlowCreationType_STREAM],
               protocol_segments |-> ProtocolSegments,
               ports_configuration |-> <<>>,
               test_types_configuration |->
                   CHOOSE t \in TestTypesConfigurations :
                     /\ t.throughput_test.enabled
                     /\ t.throughput_test.rate_iteration_options.result_scope
                          = RateResultScopeType_COMMON]
    /\ plugin_model = NotBuilt

InitProperties ==
    PropertiesInit /\ ValueRangeIdle /\ FieldIdle /\ SegmentIdle /\ ModelIdle

SpecProperties == InitProperties /\ [][PropertiesNext]_vars

InitValueRange ==
    ValueRangeInit /\ PropertiesIdle /\ FieldIdle /\ SegmentIdle /\ ModelIdle

SpecValueRange == InitValueRange /\ [][ValueRangeNext]_vars

InitField ==
    FieldInit /\ PropertiesIdle /\ ValueRangeIdle /\ SegmentIdle /\ ModelIdle

SpecField == InitField /\ [][FieldNext]_vars

InitSegment ==
    SegmentInit /\ PropertiesIdle /\ ValueRangeIdle /\ FieldIdle /\ ModelIdle

SpecSegment == InitSegment /\ [][SegmentNext]_vars

InitModel ==
    ModelInit /\ PropertiesIdle /\ ValueRangeIdle /\ FieldIdle /\ SegmentIdle

SpecModel == InitModel /\ [][ModelNext]_vars

----------------------------------------------------------------------------
(* Claims about Properties *)

\* the numeric outcome of a Properties record
Aggregates(p) ==
    [dest_port_count |-> p.dest_port_count,
     low_dest_port_count |-> p.low_dest_port_count,
     high_dest_port_count |-> p.high_dest_port_count,
     num_modifiersL2 |-> p.num_modifiersL2,
     lowest_dest_port_index |-> p.lowest_dest_port_index,
     highest_dest_port_index |-> p.highest_dest_port_index]

\* C1: calling register_peer with a peer that is already in the peers list
\* is a no-op: the peers list and every aggregate stay as they were.
C1_DuplicateRegistrationIsNoOp ==
    [][\A peer \in PeerIds :
         (peer \in Range(props.peers) /\ RegisterPeer(peer)) => props' = props]_vars

\* all the orders in which the calls of a sequence can be made
Orders(s) ==
    {[i \in 1..Len(s) |-> s[f[i]]] :
       f \in {g \in [1..Len(s) -> 1..Len(s)] :
                \A i, j \in 1..Len(s) : i # j => g[i] # g[j]}}

RECURSIVE RegisterAll(_, _, _)
RegisterAll(p, s, table) ==
    IF s = <<>> THEN p
    ELSE RegisterAll(register_peer(p, Head(s), table[Head(s)]), Tail(s), table)

Distinct(s) == \A i, j \in 1..Len(s) : i # j => s[i] # s[j]

CallIndices == {peerIndex[calls[i]] : i \in 1..Len(calls)}

\* C2: for distinct peers, every order of the register_peer calls ends with
\* the same counts, extremes and num_modifiersL2; peers with indices {5, 1, 9}
\* on port 3 give lowest=1, highest=9, low_count=1, high_count=2, modifiers=2.
C2_OrderIndependent ==
    Distinct(calls) =>
      /\ \A q \in Orders(calls) :
           Aggregates(RegisterAll(Properties(props.test_port_index), q, peerIndex))
             = Aggregates(props)
      /\ (props.test_port_index = 3 /\ Len(calls) = 3 /\ CallIndices = {1, 5, 9})
           => /\ props.lowest_dest_port_index = 1
              /\ props.highest_dest_port_index = 9
              /\ props.low_dest_port_count = 1
              /\ props.high_dest_port_count = 2
              /\ props.num_modifiersL2 = 2

C2_Witness ==
    /\ Distinct(calls) /\ Len(calls) = 3
    /\ props.test_port_index = 3
    /\ <<peerIndex[calls[1]], peerIndex[calls[2]], peerIndex[calls[3]]>> = <<9, 1, 5>>
    /\ props.lowest_dest_port_index = 1 /\ props.highest_dest_port_index = 9

\* the range the claim states, from the fields of the Properties record
C3_Expected(p, stream_id) ==
    IF stream_id # 0
    THEN <<p.test_port_index + 1, p.highest_dest_port_index>>
    ELSE IF p.num_modifiersL2 = 2
         THEN <<p.lowest_dest_port_index, p.test_port_index - 1>>
         ELSE IF p.dest_port_count > 0
              THEN <<p.lowest_dest_port_index, p.highest_dest_port_index>>
              ELSE <<p.test_port_index, p.test_port_index>>

\* C3: get_modifier_range returns (lowest, own-1) for stream 0 with two
\* modifiers, else (lowest, highest) with a destination, else (own, own); for
\* any other stream (own+1, highest); it changes nothing of the Properties.
\* Index 3, lowest 1, highest 9, two modifiers: (1, 2) and (4, 9).
C3_ModifierRange ==
    [][\A stream_id \in StreamIds :
         GetModifierRange(stream_id) =>
           /\ props' = props
           /\ modifier_range'.called /\ modifier_range'.stream_id = stream_id
           /\ modifier_range'.range = C3_Expected(props, stream_id)
           /\ (props.test_port_index = 3 /\ props.num_modifiersL2 = 2
               /\ props.lowest_dest_port_index = 1
               /\ props.highest_dest_port_index = 9)
                => modifier_range'.range = IF stream_id = 0 THEN <<1, 2>> ELSE <<4, 9>>]_vars

C3_Witness ==
    /\ props.test_port_index = 3 /\ props.num_modifiersL2 = 2
    /\ props.lowest_dest_port_index = 1 /\ props.highest_dest_port_index = 9
    /\ modifier_range.called
    /\ modifier_range.stream_id = 0
    /\ modifier_range.range = <<1, 2>>

\* C23: register_peer with a peer whose index is the port's own records the
\* peer in peers, once, and leaves the counts, the extremes and
\* num_modifiersL2 as they were.
C23_SelfIndexPeer ==
    [][\A peer \in PeerIds :
         (peerIndex[peer] = props.test_port_index /\ RegisterPeer(peer)) =>
           /\ Aggregates(props') = Aggregates(props)
           /\ props'.test_port_index = props.test_port_index
           /\ props'.peers = IF peer \in Range(props.peers)
                             THEN props.peers
                             ELSE Append(props.peers, peer)
           /\ peer \in Range(props'.peers)]_vars

\* a peer with the port's own index was registered last, after a peer that
\* counted
C23_Witness ==
    /\ Len(calls) >= 2
    /\ peerIndex[calls[Len(calls)]] = props.test_port_index
    /\ calls[Len(calls)] \in Range(props.peers)
    /\ props.dest_port_count > 0

\* the indices of the registered peers that are not the port's own index
NonSelfIndices ==
    {peerIndex[props.peers[i]] :
       i \in {k \in 1..Len(props.peers) :
                peerIndex[props.peers[k]] # props.test_port_index}}

\* C24: after any register_peer calls dest_port_count is the sum of the low
\* and high counts; num_modifiersL2 is 2 iff both counts are positive, else
\* 1; the lowest and highest index are both -1 iff dest_port_count is 0 and
\* otherwise the least and greatest index of the registered non-self peers;
\* and no peer is in the peers list twice.
C24_PropertiesInvariant ==
    /\ props.dest_port_count
         = props.low_dest_port_count + props.high_dest_port_count
    /\ props.num_modifiersL2
         = IF props.low_dest_port_count > 0 /\ props.high_dest_port_count > 0
           THEN 2 ELSE 1
    /\ (props.lowest_dest_port_index = -1 /\ props.highest_dest_port_index = -1)
         <=> props.dest_port_count = 0
    /\ props.dest_port_count # 0 =>
         /\ props.lowest_dest_port_index \in NonSelfIndices
         /\ props.highest_dest_port_index \in NonSelfIndices
         /\ \A x \in NonSelfIndices :
              props.lowest_dest_port_index <= x /\ x <= props.highest_dest_port_index
         /\ props.lowest_dest_port_index <= props.highest_dest_port_index
    /\ Distinct(props.peers)

\* a lower, a higher and a self-index peer were registered, one of them twice
C24_Witness ==
    /\ Len(calls) = MaxCalls
    /\ props.num_modifiersL2 = 2
    /\ props.lowest_dest_port_index < props.highest_dest_port_index
    /\ props.dest_port_count = MaxCalls
    /\ Len(props.peers) < Len(calls)

\* the indices of an inclusive range
Covered(range) == range[1]..range[2]

\* C25: after any register_peer calls the range get_modifier_range returns
\* for stream 0 has lo <= hi, and with two modifiers the stream-0 range
\* (lowest, own-1) and the range of the other stream (own+1, highest) are
\* non-empty, disjoint, without the port's own index, and contain the index
\* of every registered non-self peer.
C25_RangeWellFormed ==
    LET low_range == get_modifier_range(props, 0)
    IN  /\ low_range[1] <= low_range[2]
        /\ modifier_range.called =>
              modifier_range.range = get_modifier_range(props, modifier_range.stream_id)
        /\ props.num_modifiersL2 = 2 =>
              \A stream_id \in StreamIds \ {0} :
                LET high_range == get_modifier_range(props, stream_id)
                IN  /\ low_range = <<props.lowest_dest_port_index,
                                      props.test_port_index - 1>>
                    /\ high_range = <<props.test_port_index + 1,
                                       props.highest_dest_port_index>>
                    /\ Covered(low_range) # {} /\ Covered(high_range) # {}
                    /\ Covered(low_range) \cap Covered(high_range) = {}
                    /\ props.test_port_index
                         \notin Covered(low_range) \cup Covered(high_range)
                    /\ NonSelfIndices
                         \subseteq Covered(low_range) \cup Covered(high_range)

\* the range of stream 1 was returned for a port with two modifiers and a
\* registered self-index peer
C25_Witness ==
    /\ modifier_range.called /\ modifier_range.stream_id = 1
    /\ props.num_modifiersL2 = 2
    /\ modifier_range.range
         = <<props.test_port_index + 1, props.highest_dest_port_index>>
    /\ \E i \in 1..Len(props.peers) :
         peerIndex[props.peers[i]] = props.test_port_index

----------------------------------------------------------------------------
(* Claims about ValueRange *)

\* the k-th value (k >= 1) of the cycle start, start+step, ... that restarts at
\* start once the next value would exceed stop
RECURSIVE IncrementCycle(_, _, _, _)
IncrementCycle(start, step, stop, k) ==
    IF k = 1 THEN start
    ELSE LET next == IncrementCycle(start, step, stop, k - 1) + step
         IN IF next > stop THEN start ELSE next

\* the k-th value (k >= 1) of the cycle start, start-step, ... that restarts at
\* start once the next value would drop below stop
RECURSIVE DecrementCycle(_, _, _, _)
DecrementCycle(start, step, stop, k) ==
    IF k = 1 THEN start
    ELSE LET next == DecrementCycle(start, step, stop, k - 1) - step
         IN IF next < stop THEN start ELSE next

\* C4: an increment ValueRange returns start, start+step, ... while the value
\* is <= stop and then start again; start=0, step=1, stop=2 gives 0, 1, 2, 0,
\* 1, 2, ... with period 3.
C4_IncrementSequence ==
    (vr.action = EnumActions_INCR /\ get_ret.called) =>
      /\ get_ret.value =
           IncrementCycle(vr.start_value, vr.step_value, vr.stop_value, pulls)
      /\ (vr.start_value = 0 /\ vr.step_value = 1 /\ vr.stop_value = 2)
           => get_ret.value = (pulls - 1) % 3

\* C5: a decrement ValueRange returns start, start-step, ... while the value
\* is >= stop and then start again; start=10, step=3, stop=1 gives 10, 7, 4,
\* 1, 10, ...
C5_DecrementSequence ==
    (vr.action = EnumActions_DECR /\ get_ret.called) =>
      /\ get_ret.value =
           DecrementCycle(vr.start_value, vr.step_value, vr.stop_value, pulls)
      /\ (vr.start_value = 10 /\ vr.step_value = 3 /\ vr.stop_value = 1)
           => get_ret.value = 10 - 3 * ((pulls - 1) % 4)

\* C6: current_count is never negative, reset() leaves it 0, and every
\* get_current_value call, whatever the action, leaves it 1 above the count the
\* value was computed with: 0 if the call wrapped, the previous count if not.
C6_CountDiscipline ==
    /\ [](vr.current_count >= 0)
    /\ [][Reset => vr'.current_count = 0]_vars
    /\ [][GetCurrentValue =>
            vr'.current_count =
              1 + (IF get_ret'.wrapped THEN 0 ELSE vr.current_count)]_vars

C6_Witness ==
    /\ vr.action = EnumActions_DECR
    /\ get_ret.called
    /\ vr.current_count = 3

----------------------------------------------------------------------------
(* Claims about SegmentField *)

\* C7: set_field_value(v) with a bit-string v stores v and succeeds iff
\* len(v) == bit_length; otherwise it raises the length error and leaves the
\* value and every other attribute of the field as they were.
C7_SetFieldValue ==
    [][\A v \in FieldInputs :
         SetFieldValue(v) =>
           IF Len(v) = field.bit_length
           THEN /\ field_ret'.err = NoError
                /\ field' = [field EXCEPT !.value = v]
           ELSE /\ field_ret'.err = "ValueError"
                /\ field' = field]_vars

C7_Witness ==
    /\ field_ret.op = "set_field_value"
    /\ field_ret.err = "ValueError"
    /\ Len(field.value) = field.bit_length
    /\ field.value_range # None

\* n as a binary string of exactly width bits, most significant first
BitsOfWidth(n, width) ==
    [i \in 1..width |-> IF (n \div (2 ^ (width - i))) % 2 = 1 THEN "1" ELSE "0"]

\* value with the bit_length characters from position on replaced by bits
Spliced(value, position, bit_length, bits) ==
    SubSeq(value, 1, position) \o bits
      \o SubSeq(value, position + bit_length + 1, Len(value))

\* C9: prepare() on a field with a value range completes without error and
\* returns the stored value with the generator's next value, as exactly
\* bit_length zero-padded bits, in place of the bit_length bits at
\* bit_segment_position, so as long as the stored value; without a value range
\* it returns the stored value.
C9_PrepareSplices ==
    field_ret.op = "prepare" =>
      /\ field_ret.err = NoError
      /\ IF field.value_range = None
         THEN field_ret.result = field.value
         ELSE /\ field_ret.result =
                   Spliced(field.value, field.bit_segment_position, field.bit_length,
                           BitsOfWidth(field_ret.generated, field.bit_length))
              /\ Len(field_ret.result) = Len(field.value)

----------------------------------------------------------------------------
(* Claims about Segment *)

\* C8: in every state reached through construction, set_field_value,
\* __setitem__ and the setup_segment_* helpers, every field's value is as long
\* as its bit_length and holds only the symbols 0 and 1.
C8_FieldValueWellFormed ==
    \A i \in 1..Len(segment.fields) :
      /\ Len(segment.fields[i].value) = segment.fields[i].bit_length
      /\ \A k \in 1..Len(segment.fields[i].value) :
           segment.fields[i].value[k] \in {"0", "1"}

\* C10: the buffer Segment.prepare() returns is as many bits long as the sum
\* of the bit_length of the segment's fields (len(segment)), and that length
\* is divisible by 8.
C10_PreparedLength ==
    (seg_ret.op = "prepare" /\ seg_ret.err = NoError) =>
      /\ 8 * Len(seg_ret.result) = Segment_len(segment)
      /\ (8 * Len(seg_ret.result)) % 8 = 0

\* the 16-bit big-endian word w (from 0) of a buffer, a missing last byte as 0
WordAt(bytes, w) ==
    bytes[2 * w + 1] * 256 + (IF 2 * w + 2 <= Len(bytes) THEN bytes[2 * w + 2] ELSE 0)

\* the sum of the 16-bit words of a buffer
SumOfWords(bytes) ==
    LET RECURSIVE Sum(_)
        Sum(n) == IF n = 0 THEN 0 ELSE Sum(n - 1) + WordAt(bytes, n - 1)
    IN  Sum((Len(bytes) + 1) \div 2)

\* the carries beyond 16 bits added back into the low 16 bits until none is left
RECURSIVE EndAroundCarry(_)
EndAroundCarry(sum) ==
    IF sum > 65535 THEN EndAroundCarry((sum % 65536) + (sum \div 65536)) ELSE sum

\* the 16-bit Internet checksum of a buffer: the one's complement of the
\* end-around-carry sum of its big-endian 16-bit words
InternetChecksum(bytes) == 65535 - EndAroundCarry(SumOfWords(bytes))

\* C11: whenever prepare() returns a buffer for a segment whose checksum_offset
\* k addresses two bytes inside that buffer, the Internet checksum recomputed
\* over the whole returned buffer is 0.
C11_ChecksumRoundTrip ==
    (/\ seg_ret.op = "prepare"
     /\ seg_ret.err = NoError
     /\ segment.checksum_offset # None
     /\ segment.checksum_offset[1] + 2 <= Len(seg_ret.result))
    => InternetChecksum(seg_ret.result) = 0

\* the bytes of a str of binary digits whose length is a multiple of 8, each
\* byte from its 8 digits, most significant first
PackedBytes(bits) ==
    [j \in 1..(Len(bits) \div 8) |->
       LET RECURSIVE Value(_)
           Value(n) == IF n = 0 THEN 0
                       ELSE 2 * Value(n - 1) + (IF bits[8 * (j - 1) + n] = "1" THEN 1 ELSE 0)
       IN  Value(8)]

\* the values of the fields from field i on, joined
RECURSIVE JoinedValues(_, _)
JoinedValues(fields, i) ==
    IF i > Len(fields) THEN <<>> ELSE fields[i].value \o JoinedValues(fields, i + 1)

\* C12: prepare() applies the checksum exactly when checksum_offset is set:
\* for every offset k >= 0 inside the returned buffer, 0 included, the two
\* bytes at k are the big-endian Internet checksum of the buffer with those
\* two bytes zeroed; with no checksum_offset the buffer is the field bits
\* joined (stated for fields without a value range and whole bytes).
C12_ChecksumApplied ==
    (seg_ret.op = "prepare" /\ seg_ret.err = NoError) =>
      IF segment.checksum_offset = None
      THEN (/\ \A i \in 1..Len(segment.fields) : segment.fields[i].value_range = None
            /\ Len(JoinedValues(segment.fields, 1)) % 8 = 0)
           => seg_ret.result = PackedBytes(JoinedValues(segment.fields, 1))
      ELSE LET k == segment.checksum_offset[1]
           IN  k + 2 <= Len(seg_ret.result) =>
                 LET zeroed == [seg_ret.result EXCEPT ![k + 1] = 0, ![k + 2] = 0]
                     checksum == InternetChecksum(zeroed)
                 IN  /\ seg_ret.result[k + 1] = checksum \div 256
                     /\ seg_ret.result[k + 2] = checksum % 256

\* what C13 says of one address field of a segment across a helper call:
\* recorded is the zero-ness recorded at construction for the field, new the
\* address the helper was given for it
AutoFilled(before, after, err, field_name, recorded, new) ==
    LET i == Segment_getitem(before, field_name)
    IN  IF recorded /\ ~is_all_zero(new)
        THEN /\ err = NoError
             /\ after.fields[i].value = new
        ELSE after.fields[i].value = before.fields[i].value

\* C13: each setup_segment_* helper overwrites the src (dst) address field,
\* the field whose zero-ness was recorded at construction, iff that field was
\* recorded all-zero and the new address (for the Ethernet dst the ARP-resolved
\* MAC where one is given and not all-zero) is not all-zero; then the field
\* receives the new value without error, otherwise its value is unchanged.
C13_AutoFill ==
    [][LET names == OriginalValueFields(segment.segment_type)
           Both(src, dst) ==
               /\ AutoFilled(segment, segment', seg_ret'.err, names[1],
                             segment.is_field_src_value_all_zero, src)
               /\ AutoFilled(segment, segment', seg_ret'.err, names[2],
                             segment.is_field_dst_value_all_zero, dst)
       IN  /\ segment.segment_type = SegmentType_ETHERNET =>
                \A src \in AddressInputs, dst \in AddressInputs,
                   arp \in {None, Some(Zeros(8)), Some(Pattern(8))} :
                  SetupSegmentEthernet(src, dst, arp) =>
                    Both(src, IF arp # None /\ ~is_all_zero(arp[1]) THEN arp[1] ELSE dst)
           /\ segment.segment_type = SegmentType_IP =>
                \A src \in AddressInputs, dst \in AddressInputs :
                  SetupSegmentIpv4(src, dst) => Both(src, dst)
           /\ segment.segment_type = SegmentType_IPV6 =>
                \A src \in AddressInputs, dst \in AddressInputs :
                  SetupSegmentIpv6(src, dst) => Both(src, dst)]_vars

----------------------------------------------------------------------------
(* Claims about the validation pipeline.  The configuration is input_data;  *)
(* what the specification asks of it is stated here from its checks 1..8.   *)

Built == plugin_model # NotBuilt

InPorts == input_data.ports_configuration

OutPorts == plugin_model.ports_configuration

Topology == input_data.test_configuration.topology

Direction == input_data.test_configuration.direction

ModifierBased ==
    input_data.test_configuration.flow_creation_type = FlowCreationType_MODIFIER

\* the port's slot, its config index, equals its own peer slot
Looped(i) == InPorts[i].key = InPorts[i].value.peer_config_slot

\* the protocol version of the port's resolved profile
VersionOf(i) == protocol_version(input_data.protocol_segments[InPorts[i].value.profile_id])

\* the address selected by the version: IPv6 properties for IPv6, else IPv4
SelectedAddress(i) ==
    IF VersionOf(i) = PortProtocolVersion_IPV6
    THEN InPorts[i].value.ipv6_properties.address
    ELSE InPorts[i].value.ipv4_properties.address

\* check 2: an IP-layer profile with the unset address
Check2Violated ==
    \E i \in 1..Len(InPorts) :
      VersionOf(i) # PortProtocolVersion_ETHERNET /\ is_empty(SelectedAddress(i))

RequiredPorts == IF is_pair_topology(Topology) THEN 1 ELSE 2

\* check 3: fewer ports than the floor
Check3Violated == Len(InPorts) < RequiredPorts

\* the ports of a group, a looped port counting in both when pairing is in use
PortsIn(group, other) ==
    Cardinality({i \in 1..Len(InPorts) :
                   \/ InPorts[i].value.port_group = group
                   \/ /\ is_pair_topology(Topology)
                      /\ Looped(i)
                      /\ InPorts[i].value.port_group = other})

PortsInEast == PortsIn(PortGroup_EAST, PortGroup_WEST)

PortsInWest == PortsIn(PortGroup_WEST, PortGroup_EAST)

PeerEmpty(i) == InPorts[i].value.peer_config_slot = ""

\* the peer slot names a configured port whose own peer slot names this port
PeerSymmetric(i) ==
    /\ InPorts[i].value.peer_config_slot \in Keys(InPorts)
    /\ Lookup(InPorts, InPorts[i].value.peer_config_slot).peer_config_slot
         = InPorts[i].key

PeersViolated ==
    /\ is_pair_topology(Topology)
    /\ \E i \in 1..Len(InPorts) : PeerEmpty(i) \/ ~PeerSymmetric(i)

GroupsViolated ==
    /\ ~is_mesh_topology(Topology)
    /\ PortsInEast = 0 \/ PortsInWest = 0

\* check 4: group and peer consistency
Check4Violated == PeersViolated \/ GroupsViolated

\* check 5: a port without a group in a non-mesh topology
Check5Violated ==
    /\ ~is_mesh_topology(Topology)
    /\ \E i \in 1..Len(InPorts) : InPorts[i].value.port_group = PortGroup_UNDEFINED

\* check 6: modifier-based flow creation with an IP-layer profile
Check6Violated ==
    /\ ModifierBased
    /\ \E i \in 1..Len(InPorts) : VersionOf(i) # PortProtocolVersion_ETHERNET

\* check 7: no test type enabled
Check7Violated ==
    LET t == input_data.test_types_configuration
    IN  ~(\/ t.throughput_test.enabled
          \/ t.latency_test.enabled
          \/ t.frame_loss_rate_test.enabled
          \/ t.back_to_back_test.enabled)

PerSourcePortScope ==
    input_data.test_types_configuration.throughput_test.rate_iteration_options.result_scope
      = RateResultScopeType_PER_SOURCE_PORT

\* check 8: per-source-port result scope with modifier-based flow creation
Check8Violated == PerSourcePortScope /\ ModifierBased

\* the role-assignment step has returned: a later validator was entered or
\* the model was built
RolesAssigned ==
    /\ Built
    /\ plugin_model.err = NoError \/ Len(plugin_model.ran) >= 2

ExpectedRoles(i) ==
    LET group == InPorts[i].value.port_group
    IN  IF Looped(i) THEN <<TRUE, TRUE>>
        ELSE IF Direction = TrafficDirection_EAST_TO_WEST
        THEN IF group = PortGroup_EAST THEN <<TRUE, FALSE>>
             ELSE IF group = PortGroup_WEST THEN <<FALSE, TRUE>>
             ELSE <<TRUE, TRUE>>
        ELSE IF Direction = TrafficDirection_WEST_TO_EAST
        THEN IF group = PortGroup_EAST THEN <<FALSE, TRUE>>
             ELSE IF group = PortGroup_WEST THEN <<TRUE, FALSE>>
             ELSE <<TRUE, TRUE>>
        ELSE <<TRUE, TRUE>>

\* C15: for a non-mesh topology, once validation has run every port has the
\* flags of its case: both for a looped port; tx only for East and rx only
\* for West under EAST_TO_WEST, mirrored under WEST_TO_EAST; both for an
\* Undefined group or another direction.
C15_RoleAssignment ==
    (Built /\ ~is_mesh_topology(Topology)) =>
      \A i \in 1..Len(OutPorts) :
        <<is_tx_port(OutPorts[i].value), is_rx_port(OutPorts[i].value)>>
          = ExpectedRoles(i)

\* C16: a non-mesh configuration with a port of group Undefined that passes
\* checks 1 to 4 fails with PortGroupNeeded.
C16_GroupNeeded ==
    (/\ Built
     /\ Check5Violated
     /\ ~Check2Violated /\ ~Check3Violated /\ ~Check4Violated)
    => plugin_model.err = PortGroupNeeded

\* the lowest-numbered check of 2..8 the configuration violates, 0 for none
LowestViolated ==
    IF Check2Violated THEN 2
    ELSE IF Check3Violated THEN 3
    ELSE IF Check4Violated THEN 4
    ELSE IF Check5Violated THEN 5
    ELSE IF Check6Violated THEN 6
    ELSE IF Check7Violated THEN 7
    ELSE IF Check8Violated THEN 8
    ELSE 0

\* the errors a violated check surfaces for the configuration
ErrorsOf(check) ==
    CASE check = 2 -> {IPAddressMissing}
      [] check = 3 -> {PortConfigNotEnough(RequiredPorts)}
      [] check = 4 ->
           (IF /\ is_pair_topology(Topology)
               /\ \E i \in 1..Len(InPorts) : PeerEmpty(i)
            THEN {PortPeerNeeded} ELSE {})
           \cup (IF /\ is_pair_topology(Topology)
                    /\ \E i \in 1..Len(InPorts) : ~PeerEmpty(i) /\ ~PeerSymmetric(i)
                 THEN {PortPeerInconsistent} ELSE {})
           \cup (IF ~is_mesh_topology(Topology) /\ PortsInEast = 0
                 THEN {PortGroupError("East")} ELSE {})
           \cup (IF ~is_mesh_topology(Topology) /\ PortsInWest = 0
                 THEN {PortGroupError("West")} ELSE {})
      [] check = 5 -> {PortGroupNeeded}
      [] check = 6 -> {ModifierBasedNotSupportL3}
      [] check = 7 -> {TestTypesError}
      [] check = 8 -> {ModifierBasedNotSupportPerPortResult}

\* the check a validator carries out
CheckOf(validator) ==
    CASE validator = "set_ports_rx_tx_type" -> 1
      [] validator = "set_ip_properties" -> 2
      [] validator = "check_port_count" -> 3
      [] validator = "check_port_groups_and_peers" -> 4
      [] validator = "check_port_group" -> 5
      [] validator = "check_modifier_mode_and_segments" -> 6
      [] validator = "check_test_type_enable" -> 7
      [] validator = "check_result_scope" -> 8

\* C17: the checks run in the order 1..8 and validation stops at the first
\* violated one: the error is that of the lowest-numbered violated check, no
\* check after it has run, and a configuration is returned only when no check
\* is violated.
C17_FirstViolationSurfaces ==
    Built =>
      IF LowestViolated = 0 THEN plugin_model.err = NoError
      ELSE /\ plugin_model.err \in ErrorsOf(LowestViolated)
           /\ \A k \in 1..Len(plugin_model.ran) :
                CheckOf(plugin_model.ran[k]) <= LowestViolated

\* every check but the peer part of check 4 is passed
OtherwiseValid ==
    /\ ~Check2Violated /\ ~Check3Violated /\ ~GroupsViolated
    /\ ~Check5Violated /\ ~Check6Violated /\ ~Check7Violated /\ ~Check8Violated

\* C18: with explicit peer pairing an otherwise valid configuration is
\* accepted iff every peer slot is non-empty and symmetric; it fails with
\* PortPeerNeeded or PortPeerInconsistent otherwise, PortPeerNeeded only with
\* an empty peer slot and PortPeerInconsistent only with a peer slot naming an
\* unconfigured port or a port whose peer slot names another port.
C18_PeerPairing ==
    (Built /\ is_pair_topology(Topology) /\ OtherwiseValid) =>
      IF \A i \in 1..Len(InPorts) : ~PeerEmpty(i) /\ PeerSymmetric(i)
      THEN plugin_model.err = NoError
      ELSE /\ plugin_model.err \in {PortPeerNeeded, PortPeerInconsistent}
           /\ plugin_model.err = PortPeerNeeded
                => \E i \in 1..Len(InPorts) : PeerEmpty(i)
           /\ plugin_model.err = PortPeerInconsistent
                => \E i \in 1..Len(InPorts) : ~PeerEmpty(i) /\ ~PeerSymmetric(i)

\* C19: a non-mesh configuration that passes checks 1 to 3 and the peer check
\* and whose East or West group has no port fails with PortGroupError naming
\* an empty group.
C19_EmptyGroup ==
    (/\ Built
     /\ GroupsViolated
     /\ ~Check2Violated /\ ~Check3Violated /\ ~PeersViolated)
    => plugin_model.err \in
         (IF PortsInEast = 0 THEN {PortGroupError("East")} ELSE {})
         \cup (IF PortsInWest = 0 THEN {PortGroupError("West")} ELSE {})

\* C20: a configuration that passes checks 1 to 7 fails with
\* ModifierBasedNotSupportPerPortResult when the throughput test's result
\* scope is per source port and flow creation is modifier-based, and no
\* configuration with stream-based flow creation fails with that error.
C20_ResultScope ==
    Built =>
      /\ (/\ Check8Violated
          /\ ~Check2Violated /\ ~Check3Violated /\ ~Check4Violated
          /\ ~Check5Violated /\ ~Check6Violated /\ ~Check7Violated)
         => plugin_model.err = ModifierBasedNotSupportPerPortResult
      /\ ~ModifierBased => plugin_model.err # ModifierBasedNotSupportPerPortResult

\* the port and profile data pass checks 2 to 6
PortDataValid ==
    /\ ~Check2Violated /\ ~Check3Violated /\ ~Check4Violated
    /\ ~Check5Violated /\ ~Check6Violated

\* C21: a configuration with all four test types disabled and otherwise valid
\* port and profile data fails with TestTypesError, and a configuration with
\* one of the four enabled never fails with TestTypesError.
C21_TestTypes ==
    Built =>
      /\ (Check7Violated /\ PortDataValid) => plugin_model.err = TestTypesError
      /\ ~Check7Violated => plugin_model.err # TestTypesError

\* the address properties the specification selects for port i
SelectedProperties(i) ==
    IF VersionOf(i) = PortProtocolVersion_IPV6
    THEN InPorts[i].value.ipv6_properties
    ELSE InPorts[i].value.ipv4_properties

\* C22: validation fails with IPAddressMissing iff some port has an IP-layer
\* profile whose selected address is unset, and once the resolution step has
\* returned every port carries its resolved profile and the address
\* properties of that profile's family.
C22_AddressResolution ==
    Built =>
      /\ plugin_model.err = IPAddressMissing <=> Check2Violated
      /\ plugin_model.err = NoError =>
            \A i \in 1..Len(OutPorts) :
              /\ profile(OutPorts[i].value)
                   = input_data.protocol_segments[InPorts[i].value.profile_id]
              /\ ip_properties(OutPorts[i].value) = SelectedProperties(i)

----------------------------------------------------------------------------

Init == PropertiesInit /\ ValueRangeInit /\ FieldInit /\ SegmentInit /\ ModelInit

Next ==
    \/ PropertiesNext
    \/ ValueRangeNext
    \/ FieldNext
    \/ SegmentNext
    \/ ModelNext

Spec == Init /\ [][Next]_vars

====
